---- MODULE Spec2Model ----
(***************************************************************************)
(* State-machine model of the washroom hygiene backend (src/main.py):      *)
(* the scoring engine (HygieneScoreEngine), the MQTT message handler and   *)
(* its processing pipeline (BackendProcessor), the console dashboard and   *)
(* the daily CSV logger.                                                   *)
(*                                                                         *)
(* Numbers.  Python floats are modelled as fixed-point integers:           *)
(*   - scores are counted in 1/Scale of a point (Scale = 1000), so a score *)
(*     rounded to 2 decimals is a multiple of 10;                          *)
(*   - raw sensor values are integers;                                     *)
(*   - weights are counted in hundredths (0.35 is 35);                     *)
(*   - time is counted in 1/UnitsPerHour of an hour since an epoch that is *)
(*     a midnight.                                                         *)
(* Dictionaries are functions; a missing key is a key outside the DOMAIN.  *)
(* None is the empty set and a present optional value v is {v}.            *)
(***************************************************************************)
EXTENDS Integers, Sequences, FiniteSets, TLC

\* ------------------------------------------------------------------------
\* Representation scales
\* ------------------------------------------------------------------------

\* score units per hygiene point (three decimals are kept before rounding)
Scale == 1000

\* time units per hour (total_seconds() / 3600 yields fractional hours)
UnitsPerHour == 250

\* ------------------------------------------------------------------------
\* System configuration (main.py lines 28-64)
\* ------------------------------------------------------------------------

\* HYGIENE_THRESHOLD = 50, in points
HYGIENE_THRESHOLD == 50

\* DECAY_RATE = 0.5 points per hour, in score units per hour
DECAY_RATE == 500

\* MAX_DECAY_HOURS = 8
MAX_DECAY_HOURS == 8

Components ==
    {"air_quality", "floor_moisture", "humidity", "temperature", "footfall_density"}

\* WEIGHT_PROFILES, weights in hundredths
WEIGHT_PROFILES ==
    [office     |-> [air_quality |-> 30, floor_moisture |-> 25, humidity |-> 20,
                     temperature |-> 15, footfall_density |-> 10],
     public     |-> [air_quality |-> 35, floor_moisture |-> 30, humidity |-> 15,
                     temperature |-> 10, footfall_density |-> 10],
     hospital   |-> [air_quality |-> 40, floor_moisture |-> 30, humidity |-> 20,
                     temperature |-> 5, footfall_density |-> 5],
     restaurant |-> [air_quality |-> 35, floor_moisture |-> 25, humidity |-> 20,
                     temperature |-> 15, footfall_density |-> 5]]

\* ------------------------------------------------------------------------
\* Python helpers
\* ------------------------------------------------------------------------

None == {}

Some(v) == {v}

The(opt) == CHOOSE v \in opt : TRUE

Max(a, b) == IF a >= b THEN a ELSE b

Min(a, b) == IF a <= b THEN a ELSE b

\* dict.get(key, dflt)
Get(d, key, dflt) == IF key \in DOMAIN d THEN d[key] ELSE dflt

\* d[key] = value on a dict (inserts the key when it is absent)
Put(d, key, value) ==
    [k \in (DOMAIN d) \cup {key} |-> IF k = key THEN value ELSE d[k]]

\* round(n / d) to the nearest integer, ties to even (Python's round()); n >= 0
RoundHalfEven(n, d) ==
    LET q == n \div d
        r == n % d
    IN  IF 2 * r < d THEN q
        ELSE IF 2 * r > d THEN q + 1
        ELSE IF q % 2 = 0 THEN q ELSE q + 1

\* round(x, 2) of the value num / den score units: a multiple of Scale / 100
Round2(num, den) == (Scale \div 100) * RoundHalfEven(num, den * (Scale \div 100))

\* ------------------------------------------------------------------------
\* HygieneScoreEngine
\* ------------------------------------------------------------------------

\* self.weights of an engine built for `profile` (__init__)
EngineWeights(profile) ==
    IF profile \in DOMAIN WEIGHT_PROFILES
    THEN WEIGHT_PROFILES[profile]
    ELSE WEIGHT_PROFILES["public"]

\* line 83 with the default of line 146 (0) in place of 50
AirQualityScoreDefaultZero(data) ==
    Max(0, 100 * Scale - Get(data, "air_quality", 0) * Scale)

AirQualityScore(data) ==
    Max(0, 100 * Scale - Get(data, "air_quality", 50) * Scale)

FloorMoistureScore(data) ==
    Max(0, 100 * Scale - Get(data, "floor_moisture", 30) * Scale)

HumidityScore(data) ==
    LET humidity == Get(data, "humidity", 50)
    IN  IF 40 <= humidity /\ humidity <= 60 THEN 100 * Scale
        ELSE IF humidity < 40 THEN Max(0, (humidity * 25 * Scale) \div 10)
        ELSE Max(0, 100 * Scale - (humidity - 60) * 2 * Scale)

TemperatureScore(data) ==
    LET temperature == Get(data, "temperature", 23)
    IN  IF 20 <= temperature /\ temperature <= 26 THEN 100 * Scale
        ELSE IF temperature < 20 THEN Max(0, temperature * 5 * Scale)
        ELSE Max(0, 100 * Scale - (temperature - 26) * 5 * Scale)

FootfallScore(data) ==
    LET footfall == Get(data, "footfall_count", 0)
    IN  Max(0, 100 * Scale - ((footfall * Scale) \div 100) * 100)

calculate_component_scores(data) ==
    [air_quality      |-> AirQualityScore(data),
     floor_moisture   |-> FloorMoistureScore(data),
     humidity         |-> HumidityScore(data),
     temperature      |-> TemperatureScore(data),
     footfall_density |-> FootfallScore(data)]

RECURSIVE WeightedSum(_, _, _)
\* total_score after the loop over `keys`: sum of score * weight, in
\* score units times hundredths
WeightedSum(keys, component_scores, weights) ==
    IF keys = {} THEN 0
    ELSE LET component == CHOOSE k \in keys : TRUE
         IN  component_scores[component] * Get(weights, component, 0)
             + WeightedSum(keys \ {component}, component_scores, weights)

\* line 120 with a default weight of 1 for a component the table lacks
calculate_weighted_score_unit_default(weights, component_scores) ==
    Round2(WeightedSum(DOMAIN component_scores, component_scores,
                       [k \in DOMAIN component_scores |-> Get(weights, k, 100)]),
           100)

calculate_weighted_score(weights, component_scores) ==
    Round2(WeightedSum(DOMAIN component_scores, component_scores, weights), 100)

\* apply_time_decay without the max(0, ...) of line 138
apply_time_decay_unclamped(base_score, last_cleaned, clock) ==
    IF last_cleaned = None THEN base_score
    ELSE LET elapsed == clock - The(last_cleaned)
         IN  IF elapsed <= UnitsPerHour THEN base_score
             ELSE LET decay_units == Min(elapsed - UnitsPerHour,
                                         MAX_DECAY_HOURS * UnitsPerHour)
                  IN  Round2(base_score * UnitsPerHour - decay_units * DECAY_RATE,
                             UnitsPerHour)

\* apply_time_decay without the min(..., MAX_DECAY_HOURS) of line 135
apply_time_decay_uncapped(base_score, last_cleaned, clock) ==
    IF last_cleaned = None THEN base_score
    ELSE LET elapsed == clock - The(last_cleaned)
         IN  IF elapsed <= UnitsPerHour THEN base_score
             ELSE Round2(Max(0, base_score * UnitsPerHour
                                - (elapsed - UnitsPerHour) * DECAY_RATE),
                         UnitsPerHour)

\* apply_time_decay with the chargeable hours wrapping around at
\* MAX_DECAY_HOURS in place of the min of line 135
apply_time_decay_wrapping(base_score, last_cleaned, clock) ==
    IF last_cleaned = None THEN base_score
    ELSE LET elapsed == clock - The(last_cleaned)
         IN  IF elapsed <= UnitsPerHour THEN base_score
             ELSE LET decay_units == (elapsed - UnitsPerHour)
                                         % (MAX_DECAY_HOURS * UnitsPerHour)
                  IN  Round2(Max(0, base_score * UnitsPerHour
                                    - decay_units * DECAY_RATE),
                             UnitsPerHour)

\* last_cleaned is None or Some(timestamp); now is datetime.now()
apply_time_decay(base_score, last_cleaned, clock) ==
    IF last_cleaned = None THEN base_score
    ELSE LET elapsed == clock - The(last_cleaned)
         IN  IF elapsed <= UnitsPerHour THEN base_score
             ELSE LET decay_units == Min(elapsed - UnitsPerHour,
                                         MAX_DECAY_HOURS * UnitsPerHour)
                      \* base_score - decay_amount, times UnitsPerHour
                      decayed == Max(0, base_score * UnitsPerHour
                                        - decay_units * DECAY_RATE)
                  IN  Round2(decayed, UnitsPerHour)

Anomaly(type, severity, value) ==
    [type |-> type, severity |-> severity, value |-> value]

\* detect_anomalies with >= in place of > on line 146
detect_anomalies_inclusive(data, component_scores) ==
    LET temp == Get(data, "temperature", 23)
    IN  (IF Get(data, "air_quality", 0) >= 70
         THEN <<Anomaly("ODOR_SPIKE", "HIGH", Get(data, "air_quality", None))>>
         ELSE <<>>)
        \o
        (IF Get(data, "floor_moisture", 0) > 60
         THEN <<Anomaly("MOISTURE_ALERT", "HIGH", Get(data, "floor_moisture", None))>>
         ELSE <<>>)
        \o
        (IF temp < 10 \/ temp > 35
         THEN <<Anomaly("TEMPERATURE_ANOMALY", "MEDIUM", temp)>>
         ELSE <<>>)
        \o
        (IF Get(data, "footfall_count", 0) > 50
            /\ Get(component_scores, "air_quality", 100 * Scale) < 40 * Scale
         THEN <<Anomaly("HIGH_USAGE", "MEDIUM", Get(data, "footfall_count", None))>>
         ELSE <<>>)

detect_anomalies(data, component_scores) ==
    LET temp == Get(data, "temperature", 23)
    IN  (IF Get(data, "air_quality", 0) > 70
         THEN <<Anomaly("ODOR_SPIKE", "HIGH", Get(data, "air_quality", None))>>
         ELSE <<>>)
        \o
        (IF Get(data, "floor_moisture", 0) > 60
         THEN <<Anomaly("MOISTURE_ALERT", "HIGH", Get(data, "floor_moisture", None))>>
         ELSE <<>>)
        \o
        (IF temp < 10 \/ temp > 35
         THEN <<Anomaly("TEMPERATURE_ANOMALY", "MEDIUM", temp)>>
         ELSE <<>>)
        \o
        (IF Get(data, "footfall_count", 0) > 50
            /\ Get(component_scores, "air_quality", 100 * Scale) < 40 * Scale
         THEN <<Anomaly("HIGH_USAGE", "MEDIUM", Get(data, "footfall_count", None))>>
         ELSE <<>>)

\* ------------------------------------------------------------------------
\* Bounds of the model
\* ------------------------------------------------------------------------

\* events of the environment in one run: a message delivered, a call of an
\* external service that raises, an advance of the clock, a cleaning event,
\* a dashboard refresh
MaxEvents == 4

\* the clock advances by 2 h 32 min 52.8 s at a time
TickUnits == 2 * UnitsPerHour + 137

\* ------------------------------------------------------------------------
\* Messages and stored documents
\* ------------------------------------------------------------------------

Devices == {"w1", "w2"}

\* every rule of detect_anomalies fires
BadReading(id) ==
    [washroom_id |-> id, air_quality |-> 85, floor_moisture |-> 70,
     humidity |-> 80, temperature |-> 40, footfall_count |-> 60]

\* every component score is 50, so the base score is 50.0 under any profile
EdgeReading(id) ==
    [washroom_id |-> id, air_quality |-> 50, floor_moisture |-> 50,
     humidity |-> 20, temperature |-> 10, footfall_count |-> 50]

NoIdReading == [air_quality |-> 85, floor_moisture |-> 70]

Heartbeat(id) == [type |-> "heartbeat", washroom_id |-> id, uptime_ms |-> 1]

\* a message is its decoded JSON body, or bytes json.loads() rejects
Json(body) == [kind |-> "json", body |-> body]

Garbage == [kind |-> "garbage", body |-> <<>>]

Messages ==
    {Json(BadReading("w1")), Json(EdgeReading("w1")), Json(BadReading("w2")),
     Json(NoIdReading), Json(BadReading("")),
     Json(Heartbeat("w1")), Garbage}

\* the default document get_washroom_config creates (lines 298-303)
DefaultConfig(washroom_id) ==
    [profile |-> "public", threshold |-> HYGIENE_THRESHOLD,
     name |-> <<"Washroom", washroom_id>>, location |-> "Unknown"]

\* contents of the Firestore collection washroom_configs when the process starts
InitialStores ==
    { <<>>,
      [w1 |-> [profile |-> "spa"], w2 |-> [name |-> "lobby", threshold |-> 31]] }

\* ------------------------------------------------------------------------
\* State
\* ------------------------------------------------------------------------

VARIABLES
    now,                 \* the wall clock, datetime.now()
    washroom_configs,    \* module-level cache: id -> config document
    last_cleaning_times, \* module-level map: id -> timestamp
    last_scores,         \* module-level cache: id -> final score
    fs_configs,          \* Firestore collection washroom_configs: id -> document
    fs_logs,             \* Firestore collection hygiene_logs: sequence of results
    rt_current,          \* realtime DB washrooms/<id>/current
    rt_heartbeat,        \* realtime DB washrooms/<id>/last_heartbeat
    rt_notifications,    \* realtime DB notifications/<id>: sequence of pushes
    cfg_calls,           \* calls made on the external config store
    contexts,            \* the execution contexts that deliver messages
    feed,                \* the messages the broker may deliver
    subscriber,          \* "running", or "crashed" when an exception escapes
    pc,                  \* per context: position in on_mqtt_message
    payload,             \* per context: the decoded message
    ret,                 \* per context: caller of get_washroom_config
    doc,                 \* per context: document read or created by it
    config,              \* per context: the config it returned
    result,              \* per context: None or Some(result of the reading)
    fault,               \* history, per context: the step that raised, or "none"
    errors,              \* history: messages dropped by the except clause
    processed,           \* history: readings whose handler returned normally
    used,                \* history: events of the environment so far
    dash_pc,             \* console_dashboard: "sleep", "iter" or "dead"
    dash_size,           \* size of last_scores when the iteration began
    dash_shown,          \* entries printed by the current refresh
    log_pc,              \* daily_csv_logger: position
    log_now,             \* daily_csv_logger: its local `now`
    log_wake,            \* daily_csv_logger: when its sleep ends
    log_files,           \* dates whose CSV file was written
    log_attempts         \* history: dates passed to generate_csv_log, with outcome

caches == <<washroom_configs, last_cleaning_times, last_scores>>

sinks == <<fs_configs, fs_logs, rt_current, rt_heartbeat, rt_notifications, cfg_calls>>

locals == <<payload, ret, doc, config, result>>

control == <<subscriber, pc, fault, errors>>

dashboard == <<dash_pc, dash_size, dash_shown>>

logger == <<log_pc, log_now, log_wake, log_files, log_attempts>>

vars == <<now, caches, sinks, contexts, feed, control, locals,
          processed, used, dashboard, logger>>

AllContexts == {1, 2}

\* ------------------------------------------------------------------------
\* Control flow of one message-delivery context
\* ------------------------------------------------------------------------

\* the handler moves on to `label`
Goto(c, label) ==
    /\ pc' = [pc EXCEPT ![c] = label]
    /\ UNCHANGED <<subscriber, fault, errors>>

\* an exception raised at the current step with no try around the handler:
\* it leaves on_mqtt_message and ends the network loop
RaisedUncaught(c) ==
    /\ pc' = [pc EXCEPT ![c] = "dead"]
    /\ fault' = [fault EXCEPT ![c] = pc[c]]
    /\ subscriber' = "crashed"
    /\ UNCHANGED errors

\* an exception raised at the current step: the try of on_mqtt_message
\* (line 204) catches every Exception (line 212)
Raised(c) ==
    /\ pc' = [pc EXCEPT ![c] = "except"]
    /\ fault' = [fault EXCEPT ![c] = pc[c]]
    /\ UNCHANGED <<subscriber, errors>>

\* an external service raises or times out
ServiceFails(c) ==
    /\ used < MaxEvents
    /\ used' = used + 1
    /\ Raised(c)

\* the washroom id of the payload of context c
WashroomId(c) == payload[c].washroom_id

\* line 231 testing only for a missing key (`washroom_id is None`)
NoWashroomIdKeyOnly(data) == "washroom_id" \notin DOMAIN data

\* `not washroom_id` of line 231: the key is missing (None) or the id is empty
NoWashroomId(data) == "washroom_id" \notin DOMAIN data \/ data.washroom_id = ""

\* ------------------------------------------------------------------------
\* BackendProcessor.on_mqtt_message (lines 203-213)
\* ------------------------------------------------------------------------

\* line 207 comparing with a misspelt type
IsHeartbeatTypo(body) == "type" \in DOMAIN body /\ body.type = "Heartbeat"

\* line 207: 'type' in payload and payload['type'] == 'heartbeat'
IsHeartbeat(body) == "type" \in DOMAIN body /\ body.type = "heartbeat"

\* the handler starts on a message and moves on to `label`
Begin(c, label) ==
    /\ pc' = [pc EXCEPT ![c] = label]
    /\ fault' = [fault EXCEPT ![c] = "none"]
    /\ UNCHANGED <<subscriber, errors>>

\* lines 205-210: decode the message and route it
OnMessage(c) ==
    /\ c \in contexts
    /\ subscriber = "running"
    /\ pc[c] = "idle"
    /\ used < MaxEvents
    /\ \E msg \in feed :
         /\ payload' = [payload EXCEPT ![c] = msg.body]
         /\ IF msg.kind # "json"
            THEN Raised(c)
            ELSE IF IsHeartbeat(msg.body)
                 THEN Begin(c, "heartbeat")
                 ELSE Begin(c, "validate")
    /\ used' = used + 1
    /\ result' = [result EXCEPT ![c] = None]
    /\ UNCHANGED <<now, caches, sinks, contexts, feed, ret, doc, config,
                   processed, dashboard, logger>>

\* lines 212-213: the except clause prints the error and the handler returns
Except(c) ==
    /\ c \in contexts
    /\ pc[c] = "except"
    /\ pc' = [pc EXCEPT ![c] = "idle"]
    /\ errors' = errors + 1
    /\ UNCHANGED <<now, caches, sinks, contexts, feed, subscriber, fault, locals,
                   processed, used, dashboard, logger>>

\* ------------------------------------------------------------------------
\* BackendProcessor.handle_heartbeat (lines 215-225)
\* ------------------------------------------------------------------------

\* the path segment f'{washroom_id}' of line 220
HeartbeatKey(data) ==
    IF "washroom_id" \in DOMAIN data THEN data.washroom_id ELSE "None"

HandleHeartbeat(c) ==
    /\ c \in contexts
    /\ pc[c] = "heartbeat"
    /\ \/ /\ rt_heartbeat' =
               Put(rt_heartbeat, HeartbeatKey(payload[c]),
                   [timestamp |-> now,
                    uptime_ms |-> Get(payload[c], "uptime_ms", None)])
          /\ Goto(c, "idle")
          /\ UNCHANGED used
       \/ /\ ServiceFails(c)
          /\ UNCHANGED rt_heartbeat
    /\ UNCHANGED <<now, caches, fs_configs, fs_logs, rt_current, rt_notifications,
                   cfg_calls, contexts, feed, locals, processed, dashboard, logger>>

\* ------------------------------------------------------------------------
\* BackendProcessor.process_sensor_data (lines 227-288)
\* ------------------------------------------------------------------------

\* lines 229-237: drop a reading without id, else fetch the configuration
Validate(c) ==
    /\ c \in contexts
    /\ pc[c] = "validate"
    /\ IF NoWashroomId(payload[c])
       THEN Goto(c, "idle") /\ ret' = ret
       ELSE Goto(c, "cfg_check") /\ ret' = [ret EXCEPT ![c] = "score"]
    /\ UNCHANGED <<now, caches, sinks, contexts, feed, payload, doc, config, result,
                   processed, used, dashboard, logger>>

\* ------------------------------------------------------------------------
\* BackendProcessor.get_washroom_config (lines 290-307)
\* ------------------------------------------------------------------------

\* line 292 never finding the id in the cache
CfgCheckUncached(c) ==
    /\ c \in contexts
    /\ pc[c] = "cfg_check"
    /\ Goto(c, "cfg_get")
    /\ UNCHANGED <<now, caches, sinks, contexts, feed, locals, processed, used,
                   dashboard, logger>>

\* line 292: is the id cached?
CfgCheck(c) ==
    /\ c \in contexts
    /\ pc[c] = "cfg_check"
    /\ IF WashroomId(c) \in DOMAIN washroom_configs
       THEN Goto(c, "cfg_return")
       ELSE Goto(c, "cfg_get")
    /\ UNCHANGED <<now, caches, sinks, contexts, feed, locals, processed, used,
                   dashboard, logger>>

\* lines 293-294: read the document from the store
CfgGet(c) ==
    /\ c \in contexts
    /\ pc[c] = "cfg_get"
    /\ \/ /\ cfg_calls' = [cfg_calls EXCEPT
                             !.get = Put(@, WashroomId(c), Get(@, WashroomId(c), 0) + 1)]
          /\ IF WashroomId(c) \in DOMAIN fs_configs
             THEN /\ doc' = [doc EXCEPT ![c] = fs_configs[WashroomId(c)]]
                  /\ Goto(c, "cfg_cache")
             ELSE /\ doc' = [doc EXCEPT ![c] = DefaultConfig(WashroomId(c))]
                  /\ Goto(c, "cfg_create")
          /\ UNCHANGED used
       \/ /\ ServiceFails(c)
          /\ UNCHANGED <<cfg_calls, doc>>
    /\ UNCHANGED <<now, caches, fs_configs, fs_logs, rt_current, rt_heartbeat,
                   rt_notifications, contexts, feed, payload, ret, config, result,
                   processed, dashboard, logger>>

\* line 304: persist the default document
CfgCreate(c) ==
    /\ c \in contexts
    /\ pc[c] = "cfg_create"
    /\ \/ /\ fs_configs' = Put(fs_configs, WashroomId(c), doc[c])
          /\ cfg_calls' = [cfg_calls EXCEPT
                             !.set = Put(@, WashroomId(c), Get(@, WashroomId(c), 0) + 1)]
          /\ Goto(c, "cfg_cache")
          /\ UNCHANGED used
       \/ /\ ServiceFails(c)
          /\ UNCHANGED <<fs_configs, cfg_calls>>
    /\ UNCHANGED <<now, caches, fs_logs, rt_current, rt_heartbeat, rt_notifications,
                   contexts, feed, locals, processed, dashboard, logger>>

\* lines 295 and 305: cache the document
CfgCache(c) ==
    /\ c \in contexts
    /\ pc[c] = "cfg_cache"
    /\ washroom_configs' = Put(washroom_configs, WashroomId(c), doc[c])
    /\ Goto(c, "cfg_return")
    /\ UNCHANGED <<now, last_cleaning_times, last_scores, sinks, contexts, feed,
                   locals, processed, used, dashboard, logger>>

\* line 307: return the cached configuration to the caller
CfgReturn(c) ==
    /\ c \in contexts
    /\ pc[c] = "cfg_return"
    /\ config' = [config EXCEPT ![c] = washroom_configs[WashroomId(c)]]
    /\ Goto(c, ret[c])
    /\ UNCHANGED <<now, caches, sinks, contexts, feed, payload, ret, doc, result,
                   processed, used, dashboard, logger>>

\* ------------------------------------------------------------------------
\* process_sensor_data, lines 239-288
\* ------------------------------------------------------------------------

\* line 249 reading a device without recorded cleaning as cleaned at the epoch
LastCleanedSinceEpoch(washroom_id) ==
    IF washroom_id \in DOMAIN last_cleaning_times
    THEN Some(last_cleaning_times[washroom_id])
    ELSE Some(0)

\* last_cleaning_times.get(washroom_id) of line 249
LastCleaned(washroom_id) ==
    IF washroom_id \in DOMAIN last_cleaning_times
    THEN Some(last_cleaning_times[washroom_id])
    ELSE None

\* lines 240-266: the result of a reading (its timestamp is left out)
ScoreResult(data, profile, last_cleaned, clock) ==
    LET component_scores == calculate_component_scores(data)
        base_score  == calculate_weighted_score(EngineWeights(profile), component_scores)
        final_score == apply_time_decay(base_score, last_cleaned, clock)
    IN  [washroom_id      |-> data.washroom_id,
         sensor_data      |-> data,
         component_scores |-> component_scores,
         base_score       |-> base_score,
         final_score      |-> final_score,
         decay_applied    |-> base_score - final_score,
         anomalies        |-> detect_anomalies(data, component_scores),
         profile          |-> profile]

\* the scoring step with the cache update of line 275 moved ahead of
\* store_in_firebase
ScoreCachingFirst(c) ==
    /\ c \in contexts
    /\ pc[c] = "score"
    /\ result' = [result EXCEPT ![c] =
            Some(ScoreResult(payload[c], Get(config[c], "profile", "public"),
                             LastCleaned(WashroomId(c)), now))]
    /\ last_scores' = Put(last_scores, WashroomId(c), The(result'[c]).final_score)
    /\ Goto(c, "store_log")
    /\ UNCHANGED <<now, washroom_configs, last_cleaning_times, sinks, contexts, feed,
                   payload, ret, doc, config, processed, used, dashboard, logger>>

\* lines 237-266: score the reading
Score(c) ==
    /\ c \in contexts
    /\ pc[c] = "score"
    /\ result' = [result EXCEPT ![c] =
            Some(ScoreResult(payload[c], Get(config[c], "profile", "public"),
                             LastCleaned(WashroomId(c)), now))]
    /\ Goto(c, "store_log")
    /\ UNCHANGED <<now, caches, sinks, contexts, feed, payload, ret, doc, config,
                   processed, used, dashboard, logger>>

\* store_in_firebase, line 315: append the result to hygiene_logs
StoreLog(c) ==
    /\ c \in contexts
    /\ pc[c] = "store_log"
    /\ \/ /\ fs_logs' = Append(fs_logs, The(result[c]))
          /\ Goto(c, "store_current")
          /\ UNCHANGED used
       \/ /\ ServiceFails(c)
          /\ UNCHANGED fs_logs
    /\ UNCHANGED <<now, caches, fs_configs, rt_current, rt_heartbeat, rt_notifications,
                   cfg_calls, contexts, feed, locals, processed, dashboard, logger>>

\* store_in_firebase, lines 318-323: overwrite the current state; then
\* check_alerts asks for the configuration (line 330)
StoreCurrent(c) ==
    /\ c \in contexts
    /\ pc[c] = "store_current"
    /\ \/ /\ rt_current' =
               Put(rt_current, WashroomId(c),
                   [score            |-> The(result[c]).final_score,
                    component_scores |-> The(result[c]).component_scores,
                    anomalies        |-> The(result[c]).anomalies])
          /\ ret' = [ret EXCEPT ![c] = "alerts"]
          /\ Goto(c, "cfg_check")
          /\ UNCHANGED used
       \/ /\ ServiceFails(c)
          /\ UNCHANGED <<rt_current, ret>>
    /\ UNCHANGED <<now, caches, fs_configs, fs_logs, rt_heartbeat, rt_notifications,
                   cfg_calls, contexts, feed, payload, doc, config, result,
                   processed, dashboard, logger>>

\* line 333 with <= in place of <
AlertFiresAtThreshold(score, threshold) == score <= threshold * Scale

\* line 333: score < threshold, the threshold in points
AlertFires(score, threshold) == score < threshold * Scale

\* check_alerts, lines 331-334
CheckAlerts(c) ==
    /\ c \in contexts
    /\ pc[c] = "alerts"
    /\ IF AlertFires(The(result[c]).final_score,
                     Get(config[c], "threshold", HYGIENE_THRESHOLD))
       THEN Goto(c, "notify")
       ELSE Goto(c, "cache")
    /\ UNCHANGED <<now, caches, sinks, contexts, feed, locals, processed, used,
                   dashboard, logger>>

\* send_cleaner_notification, lines 336-350
SendCleanerNotification(c) ==
    /\ c \in contexts
    /\ pc[c] = "notify"
    /\ \/ /\ rt_notifications' =
               Put(rt_notifications, WashroomId(c),
                   Append(Get(rt_notifications, WashroomId(c), <<>>),
                          [type      |-> "HYGIENE_ALERT",
                           score     |-> The(result[c]).final_score,
                           anomalies |-> The(result[c]).anomalies]))
          /\ Goto(c, "cache")
          /\ UNCHANGED used
       \/ /\ ServiceFails(c)
          /\ UNCHANGED rt_notifications
    /\ UNCHANGED <<now, caches, fs_configs, fs_logs, rt_current, rt_heartbeat,
                   cfg_calls, contexts, feed, locals, processed, dashboard, logger>>

\* line 275 storing base_score
CachedBaseScore(res) == res.base_score

\* the value line 275 stores
CachedScore(res) == res.final_score

\* line 275: last_scores[washroom_id] = final_score
UpdateCache(c) ==
    /\ c \in contexts
    /\ pc[c] = "cache"
    /\ last_scores' = Put(last_scores, WashroomId(c), CachedScore(The(result[c])))
    /\ Goto(c, "print")
    /\ UNCHANGED <<now, washroom_configs, last_cleaning_times, sinks, contexts, feed,
                   locals, processed, used, dashboard, logger>>

\* lines 277-288: print the result; process_sensor_data and the handler return
PrintResult(c) ==
    /\ c \in contexts
    /\ pc[c] = "print"
    /\ processed' = Append(processed, [washroom_id |-> WashroomId(c),
                                       final_score |-> The(result[c]).final_score])
    /\ Goto(c, "idle")
    /\ UNCHANGED <<now, caches, sinks, contexts, feed, locals, used, dashboard, logger>>

\* ------------------------------------------------------------------------
\* The environment: the clock and the cleaning events
\* ------------------------------------------------------------------------

\* every message-delivery context is between two messages
Quiet == \A c \in contexts : pc[c] = "idle"

\* time passes.  A handler runs for far less than one time unit, so the
\* clock is taken to advance between two messages.
Tick ==
    /\ Quiet
    /\ used < MaxEvents
    /\ used' = used + 1
    /\ now' = now + TickUnits
    /\ UNCHANGED <<caches, sinks, contexts, feed, control, locals, processed,
                   dashboard, logger>>

\* timestamps an external cleaning event may carry: the present moment, or
\* one an hour ahead of this process's clock
CleaningStamps == {now, now + UnitsPerHour}

\* an external cleaning event writes last_cleaning_times (the map of line 68)
RecordCleaning(washroom_id, at) ==
    /\ Quiet
    /\ used < MaxEvents
    /\ used' = used + 1
    /\ last_cleaning_times' = Put(last_cleaning_times, washroom_id, at)
    /\ UNCHANGED <<now, washroom_configs, last_scores, sinks, contexts, feed,
                   control, locals, processed, dashboard, logger>>

\* ------------------------------------------------------------------------
\* BackendProcessor.console_dashboard (lines 416-428)
\* ------------------------------------------------------------------------

\* line 426
Status(score) ==
    IF score >= 70 * Scale THEN "GOOD"
    ELSE IF score >= 50 * Scale THEN "FAIR" ELSE "POOR"

\* lines 419-425: the sleep ends; a non-empty cache starts an iteration
DashRefresh ==
    /\ dash_pc = "sleep"
    /\ used < MaxEvents
    /\ used' = used + 1
    /\ IF DOMAIN last_scores = {}
       THEN UNCHANGED dashboard
       ELSE /\ dash_pc' = "iter"
            /\ dash_size' = Cardinality(DOMAIN last_scores)
            /\ dash_shown' = <<>>
    /\ UNCHANGED <<now, caches, sinks, contexts, feed, control, locals, processed,
                   logger>>

\* the ids the current refresh has printed
ShownIds == {dash_shown[i].washroom_id : i \in DOMAIN dash_shown}

\* lines 425-428: one step of the loop over last_scores.items().  The
\* iterator raises RuntimeError when the dict changed size; nothing in
\* console_dashboard catches it, so the thread ends.
DashNext ==
    /\ dash_pc = "iter"
    /\ IF Cardinality(DOMAIN last_scores) # dash_size
       THEN /\ dash_pc' = "dead"
            /\ UNCHANGED <<dash_size, dash_shown>>
       ELSE IF Len(dash_shown) = dash_size
       THEN /\ dash_pc' = "sleep"
            /\ UNCHANGED <<dash_size, dash_shown>>
       ELSE \E id \in DOMAIN last_scores \ ShownIds :
               /\ dash_shown' = Append(dash_shown,
                                       [washroom_id |-> id,
                                        score       |-> last_scores[id],
                                        status      |-> Status(last_scores[id])])
               /\ UNCHANGED <<dash_pc, dash_size>>
    /\ UNCHANGED <<now, caches, sinks, contexts, feed, control, locals, processed,
                   used, logger>>

\* ------------------------------------------------------------------------
\* BackendProcessor.daily_csv_logger (lines 352-371)
\* ------------------------------------------------------------------------

\* days of one run of the logger
MaxDays == 3

DayUnits == 24 * UnitsPerHour

\* datetime.date() of a timestamp, as a day number
Date(t) == t \div DayUnits

\* lines 357-363: compute the next midnight and go to sleep until then
LogCompute ==
    /\ log_pc = "compute"
    /\ log_now' = now
    /\ log_wake' = (Date(now) + 1) * DayUnits
    /\ log_pc' = "sleep"
    /\ UNCHANGED <<now, caches, sinks, contexts, feed, control, locals, processed,
                   used, dashboard, log_files, log_attempts>>

\* line 366: yesterday = now.date() - timedelta(days=1), `now` being the
\* local variable of line 357
Yesterday == Date(log_now) - 1

\* lines 363-371: the sleep ends; generate_csv_log(yesterday) writes the file
\* (lines 373-414) or raises, and then the except clause sleeps for an hour
LogExport ==
    /\ log_pc = "sleep"
    /\ now >= log_wake
    /\ \/ /\ log_files' = log_files \cup {Yesterday}
          /\ log_attempts' = Append(log_attempts, [date |-> Yesterday, ok |-> TRUE,
                                                   at |-> now])
          /\ log_pc' = "compute"
          /\ UNCHANGED <<log_wake, used>>
       \/ /\ used < MaxEvents
          /\ used' = used + 1
          /\ log_attempts' = Append(log_attempts, [date |-> Yesterday, ok |-> FALSE,
                                                   at |-> now])
          /\ log_pc' = "backoff"
          /\ log_wake' = now + UnitsPerHour
          /\ UNCHANGED log_files
    /\ UNCHANGED <<now, caches, sinks, contexts, feed, control, locals, processed,
                   dashboard, log_now>>

\* line 371 returns and the loop of line 354 starts over
LogRetry ==
    /\ log_pc = "backoff"
    /\ now >= log_wake
    /\ log_pc' = "compute"
    /\ UNCHANGED <<now, caches, sinks, contexts, feed, control, locals, processed,
                   used, dashboard, log_now, log_wake, log_files, log_attempts>>

\* an hour passes while the logger sleeps; a sleep ends when it is due
HourTick ==
    /\ log_pc \in {"sleep", "backoff"}
    /\ now < log_wake
    /\ now + UnitsPerHour <= MaxDays * DayUnits
    /\ now' = now + UnitsPerHour
    /\ UNCHANGED <<caches, sinks, contexts, feed, control, locals, processed, used,
                   dashboard, logger>>

\* ------------------------------------------------------------------------
\* Specifications
\* ------------------------------------------------------------------------

\* module-level state of lines 66-69
InitCaches ==
    /\ washroom_configs = <<>>
    /\ last_cleaning_times = <<>>
    /\ last_scores = <<>>
    /\ cfg_calls = [get |-> <<>>, set |-> <<>>]

\* the external stores and the threads of BackendProcessor.__init__
InitShared ==
    /\ fs_logs = <<>>
    /\ rt_current = <<>>
    /\ rt_heartbeat = <<>>
    /\ rt_notifications = <<>>
    /\ subscriber = "running"
    /\ errors = 0
    /\ processed = <<>>
    /\ used = 0
    /\ dash_pc = "sleep"
    /\ dash_size = 0
    /\ dash_shown = <<>>
    /\ log_pc = "compute"
    /\ log_now = 0
    /\ log_wake = 0
    /\ log_files = {}
    /\ log_attempts = <<>>

\* no message is being handled
InitHandlers ==
    /\ pc = [c \in AllContexts |-> "idle"]
    /\ payload = [c \in AllContexts |-> <<>>]
    /\ ret = [c \in AllContexts |-> "score"]
    /\ doc = [c \in AllContexts |-> <<>>]
    /\ config = [c \in AllContexts |-> <<>>]
    /\ result = [c \in AllContexts |-> None]
    /\ fault = [c \in AllContexts |-> "none"]

\* The backend as main.py runs it: loop_forever() delivers the messages on
\* one thread, the dashboard runs on a thread of its own.
Init ==
    /\ InitCaches
    /\ InitShared
    /\ InitHandlers
    /\ now = 0
    /\ contexts = {1}
    /\ feed = Messages
    /\ fs_configs \in InitialStores

Handler(c) ==
    \/ OnMessage(c)
    \/ Except(c)
    \/ HandleHeartbeat(c)
    \/ Validate(c)
    \/ CfgCheck(c)
    \/ CfgGet(c)
    \/ CfgCreate(c)
    \/ CfgCache(c)
    \/ CfgReturn(c)
    \/ Score(c)
    \/ StoreLog(c)
    \/ StoreCurrent(c)
    \/ CheckAlerts(c)
    \/ SendCleanerNotification(c)
    \/ UpdateCache(c)
    \/ PrintResult(c)

Environment ==
    \/ Tick
    \/ \E id \in Devices : \E at \in CleaningStamps : RecordCleaning(id, at)

Next ==
    \/ \E c \in AllContexts : Handler(c)
    \/ Environment
    \/ DashRefresh
    \/ DashNext

Spec == Init /\ [][Next]_vars

\* The daily CSV logger thread, started at some time of day 0.
StartTimes == {0, 10 * UnitsPerHour, 23 * UnitsPerHour}

InitExport ==
    /\ InitCaches
    /\ InitShared
    /\ InitHandlers
    /\ now \in StartTimes
    /\ contexts = {}
    /\ feed = {}
    /\ fs_configs = <<>>

NextExport == LogCompute \/ LogExport \/ LogRetry \/ HourTick

SpecExport == InitExport /\ [][NextExport]_vars

\* Two message-delivery contexts: first-sight readings handled concurrently.
ConcurrentFeed ==
    {Json(EdgeReading("w1")), Json(BadReading("w1")), Json(Heartbeat("w1"))}

InitConc ==
    /\ InitCaches
    /\ InitShared
    /\ InitHandlers
    /\ now = 0
    /\ contexts = AllContexts
    /\ feed = ConcurrentFeed
    /\ fs_configs = <<>>

NextConc == \E c \in AllContexts : Handler(c)

SpecConc == InitConc /\ [][NextConc]_vars

\* The scoring engine on a wide range of readings: the handler of a reading
\* of device w1 is about to score it (line 239), for every reading, cached
\* configuration, cleaning state and clock below.
RawAirQuality == {-5, 30, 71, 85, 120}

RawFloorMoisture == {20, 61, 120}

\* below 40 the humidity is kept even: score * weight is then a multiple of
\* 0.05 and round(total_score, 2) meets no tie of the binary floats
RawHumidity == {-4, 20, 50, 80, 120}

RawTemperature == {-3, 9, 23, 36, 50}

RawFootfall == {-10, 10, 51, 150}

\* None, or Some(v) for a value v of S
Opt(S) == {None} \cup {Some(v) : v \in S}

\* the payload of device w1 holding the fields of r that are present
Dict(r) ==
    [f \in {"washroom_id"} \cup {k \in DOMAIN r : r[k] # None} |->
        IF f = "washroom_id" THEN "w1" ELSE The(r[f])]

EngineReadings ==
    { Dict(r) : r \in [air_quality    : Opt(RawAirQuality),
                       floor_moisture : Opt(RawFloorMoisture),
                       humidity       : Opt(RawHumidity),
                       temperature    : Opt(RawTemperature),
                       footfall_count : Opt(RawFootfall)] }

\* cached configurations: the default one, a stored one, one whose profile
\* is no key of WEIGHT_PROFILES and that has no threshold
EngineConfigs ==
    {DefaultConfig("w1"), [profile |-> "hospital", threshold |-> 40], [profile |-> "spa"]}

EngineNow == 12 * UnitsPerHour

\* time since the last cleaning: the cleaning lies ahead, is this instant,
\* is 1 h ago, just over 1 h, 2.548 h, 5 h, 9 h, just over 9 h, 12 h ago
EngineElapsed ==
    {0 - UnitsPerHour, 0, UnitsPerHour, UnitsPerHour + 1, TickUnits,
     5 * UnitsPerHour, 9 * UnitsPerHour, 9 * UnitsPerHour + 1, 12 * UnitsPerHour}

InitEngine ==
    /\ InitShared
    /\ now = EngineNow
    /\ contexts = {1}
    /\ feed = {}
    /\ \E cfg \in EngineConfigs :
         /\ fs_configs = [w1 |-> cfg]
         /\ washroom_configs = [w1 |-> cfg]
         /\ config = [c \in AllContexts |-> IF c = 1 THEN cfg ELSE <<>>]
    /\ cfg_calls = [get |-> [w1 |-> 1], set |-> <<>>]
    /\ last_cleaning_times \in
         {<<>>} \cup {[w1 |-> EngineNow - e] : e \in EngineElapsed}
    /\ last_scores = <<>>
    /\ pc = [c \in AllContexts |-> IF c = 1 THEN "score" ELSE "idle"]
    /\ payload \in {[c \in AllContexts |-> IF c = 1 THEN data ELSE <<>>] :
                      data \in EngineReadings}
    /\ ret = [c \in AllContexts |-> "score"]
    /\ doc = [c \in AllContexts |-> <<>>]
    /\ result = [c \in AllContexts |-> None]
    /\ fault = [c \in AllContexts |-> "none"]

NextEngine == \E c \in AllContexts : Score(c)

SpecEngine == InitEngine /\ [][NextEngine]_vars

\* The anomaly rules at their limits: readings of device w1 whose values sit
\* on and next to the limits of detect_anomalies (70 and 60 for the air
\* quality, 60 for the moisture, 10 and 35 for the temperature, 50 for the
\* footfall), scored under two configurations, before and after a cleaning.
LimitReadings ==
    { Dict(r) : r \in [air_quality    : Opt({60, 61, 70, 71}),
                       floor_moisture : Opt({60, 61}),
                       temperature    : Opt({9, 10, 35, 36}),
                       footfall_count : Opt({50, 51})] }

LimitConfigs == {DefaultConfig("w1"), [profile |-> "hospital", threshold |-> 40]}

InitAnomalies ==
    /\ InitShared
    /\ now = EngineNow
    /\ contexts = {1}
    /\ feed = {}
    /\ \E cfg \in LimitConfigs :
         /\ fs_configs = [w1 |-> cfg]
         /\ washroom_configs = [w1 |-> cfg]
         /\ config = [c \in AllContexts |-> IF c = 1 THEN cfg ELSE <<>>]
    /\ cfg_calls = [get |-> [w1 |-> 1], set |-> <<>>]
    /\ last_cleaning_times \in {<<>>, [w1 |-> EngineNow - 5 * UnitsPerHour]}
    /\ last_scores = <<>>
    /\ pc = [c \in AllContexts |-> IF c = 1 THEN "score" ELSE "idle"]
    /\ payload \in {[c \in AllContexts |-> IF c = 1 THEN data ELSE <<>>] :
                      data \in LimitReadings}
    /\ ret = [c \in AllContexts |-> "score"]
    /\ doc = [c \in AllContexts |-> <<>>]
    /\ result = [c \in AllContexts |-> None]
    /\ fault = [c \in AllContexts |-> "none"]

SpecAnomalies == InitAnomalies /\ [][NextEngine]_vars

\* ------------------------------------------------------------------------
\* Properties
\* ------------------------------------------------------------------------

\* the results the handlers currently hold
Results == {The(result[c]) : c \in {k \in contexts : result[k] # None}}

\* C1: every component score of every scored reading lies in [0, 100].
\* Fails on the code: 100 - raw exceeds 100 for a negative raw value.
C1_ComponentScoresInRange ==
    \A r \in Results : \A k \in Components :
        0 <= r.component_scores[k] /\ r.component_scores[k] <= 100 * Scale

\* C2: for every scored reading and every cleaning state,
\* 0 <= final_score <= base_score and decay_applied = base_score - final_score
\* is not negative.
C2_FinalScoreWithinBase ==
    \A r \in Results :
        /\ 0 <= r.final_score
        /\ r.final_score <= r.base_score
        /\ r.decay_applied = r.base_score - r.final_score
        /\ r.decay_applied >= 0

\* C2 witness: a reading scored more than an hour after a cleaning, whose
\* decay is cut short by the floor of 0
C2_Witness ==
    \E r \in Results :
        /\ LastCleaned(r.washroom_id) # None
        /\ now - The(LastCleaned(r.washroom_id)) > UnitsPerHour
        /\ r.base_score > 0
        /\ r.final_score = 0

\* the threshold of a device: that of its cached configuration
ThresholdOf(id) == Get(washroom_configs[id], "threshold", HYGIENE_THRESHOLD) * Scale

\* the processed readings of a device with a final score below its threshold
BelowThreshold(id) ==
    {i \in DOMAIN processed :
        /\ processed[i].washroom_id = id
        /\ processed[i].final_score < ThresholdOf(id)}

\* the readings of a device past check_alerts whose handler has not returned
\* yet, with a final score below its threshold
BelowThresholdInFlight(id) ==
    {c \in contexts :
        /\ pc[c] \in {"cache", "print"}
        /\ WashroomId(c) = id
        /\ The(result[c]).final_score < ThresholdOf(id)}

\* C3: the notifications pushed for a device are as many as its processed
\* readings with final_score < threshold (strictly), whatever was pushed
\* before: no deduplication, no cooldown.
C3_NotificationPerQualifyingReading ==
    \A id \in Devices :
        Len(Get(rt_notifications, id, <<>>)) =
            IF id \in DOMAIN washroom_configs
            THEN Cardinality(BelowThreshold(id))
                 + Cardinality(BelowThresholdInFlight(id))
            ELSE 0

\* C3 witness: two readings of one device were processed and each one pushed
\* a notification
C3_Witness ==
    /\ Quiet
    /\ Len(processed) = 2
    /\ Len(Get(rt_notifications, "w1", <<>>)) = 2

\* a payload without device id: the key is absent or the id is empty
MissingDeviceId(data) ==
    \A id \in Devices : "washroom_id" \notin DOMAIN data \/ data.washroom_id # id

\* C4: a reading without device id is dropped by the first step of
\* process_sensor_data: the handler returns, no result was computed, and the
\* caches, the config store, the persistence sink and the notification sink
\* are as they were.
C4_MissingIdAborts ==
    [][\A c \in contexts :
          (pc[c] = "validate" /\ MissingDeviceId(payload[c]))
          => /\ pc'[c] \in {"validate", "idle"}
             /\ result'[c] = None
             /\ UNCHANGED <<caches, sinks>>]_vars

\* C4 witness: a reading without id was dropped after another reading had
\* filled the caches
C4_Witness ==
    /\ pc[1] = "idle"
    /\ used > 0
    /\ ~IsHeartbeat(payload[1])
    /\ fault[1] = "none"
    /\ MissingDeviceId(payload[1])
    /\ DOMAIN last_scores # {}

\* the steps of process_sensor_data that call the persistence sink or the
\* notification sink
SinkSteps == {"store_log", "store_current", "notify"}

\* C5: when a persistence write or a notification push failed for a scored
\* reading, the handler has returned with the LastKnownScore cache holding
\* that reading's final_score.  Fails on the code: the exception leaves
\* process_sensor_data before line 275.
C5_CacheUpdatedDespiteSinkFailure ==
    \A c \in contexts :
        (pc[c] = "idle" /\ fault[c] \in SinkSteps)
        => /\ subscriber = "running"
           /\ WashroomId(c) \in DOMAIN last_scores
           /\ last_scores[WashroomId(c)] = The(result[c]).final_score

ProcessedOf(id) == {i \in DOMAIN processed : processed[i].washroom_id = id}

\* the handlers of a reading of the device that have passed line 275
Printing(id) == {c \in contexts : pc[c] = "print" /\ WashroomId(c) = id}

\* the cache entry of a device is the final score of its latest reading
CacheIsLatest(id) ==
    IF Printing(id) # {}
    THEN \E c \in Printing(id) : last_scores[id] = The(result[c]).final_score
    ELSE IF ProcessedOf(id) = {}
    THEN id \notin DOMAIN last_scores
    ELSE LET latest == CHOOSE i \in ProcessedOf(id) : \A j \in ProcessedOf(id) : j <= i
         IN  /\ id \in DOMAIN last_scores
             /\ last_scores[id] = processed[latest].final_score

\* a step that is line 275 of some handler, storing its reading's final score
CacheWrittenByPipeline ==
    \E c \in contexts :
        /\ pc[c] = "cache"
        /\ pc'[c] = "print"
        /\ result[c] # None
        /\ last_scores' = Put(last_scores, WashroomId(c), The(result[c]).final_score)

\* C7: the LastKnownScore cache holds, for every device, the final score of
\* its most recent processed reading and nothing for a device without one,
\* and only line 275 of process_sensor_data, after the scoring, changes it.
C7_CacheHoldsLatestFinalScore ==
    /\ [](\A id \in Devices \cup DOMAIN last_scores : CacheIsLatest(id))
    /\ [][last_scores' # last_scores => CacheWrittenByPipeline]_vars

\* C7 witness: the second reading of a device replaced the score of the
\* first one, one of them scored with a decay
C7_Witness ==
    /\ Quiet
    /\ Len(processed) = 2
    /\ processed[1].washroom_id = "w1"
    /\ processed[2].washroom_id = "w1"
    /\ processed[1].final_score # processed[2].final_score
    /\ last_scores["w1"] = processed[2].final_score
    /\ \E r \in Results : r.decay_applied > 0

\* a payload of type heartbeat
HeartbeatPayload(data) == "type" \in DOMAIN data /\ data.type = "heartbeat"

\* C8: a heartbeat is handled by handle_heartbeat alone, which writes at
\* most the liveness record of its device: no score and no anomaly is
\* computed, the three caches are untouched, no notification is pushed and
\* no result is stored.
C8_HeartbeatOnlyTouchesLiveness ==
    /\ [](\A c \in contexts :
            (HeartbeatPayload(payload[c]) /\ pc[c] # "idle")
            => pc[c] \in {"heartbeat", "except"} /\ result[c] = None)
    /\ [][\A c \in contexts :
            pc[c] = "heartbeat"
            => /\ pc'[c] \in {"heartbeat", "idle", "except"}
               /\ result'[c] = None
               /\ UNCHANGED <<caches, fs_configs, fs_logs, rt_current,
                              rt_notifications, cfg_calls>>
               /\ \A k \in DOMAIN rt_heartbeat \ {HeartbeatKey(payload[c])} :
                     k \in DOMAIN rt_heartbeat' /\ rt_heartbeat'[k] = rt_heartbeat[k]]_vars

\* C8 witness: a heartbeat was recorded while the caches held a device
C8_Witness ==
    /\ Quiet
    /\ HeartbeatPayload(payload[1])
    /\ fault[1] = "none"
    /\ DOMAIN rt_heartbeat # {}
    /\ DOMAIN last_scores # {}
    /\ DOMAIN rt_notifications # {}

\* C9: no message ends the subscriber.  An exception raised while a message
\* is handled takes the handler back to waiting, and a waiting handler
\* accepts the next message.
C9_SubscriberSurvivesErrors ==
    /\ [](subscriber = "running")
    /\ [](\A c \in contexts :
            (pc[c] = "idle" /\ used < MaxEvents) => ENABLED OnMessage(c))
    /\ [][\A c \in contexts :
            pc[c] = "except" => pc'[c] \in {"except", "idle"}]_vars

\* C9 witness: a reading was processed to the end after a message had been
\* dropped on an exception
C9_Witness ==
    /\ Quiet
    /\ errors > 0
    /\ fault[1] = "none"
    /\ ~MissingDeviceId(payload[1])
    /\ ~HeartbeatPayload(payload[1])
    /\ processed # <<>>
    /\ processed[Len(processed)].washroom_id = WashroomId(1)
    /\ last_scores[WashroomId(1)] = The(result[1]).final_score

\* C10: an export that failed is attempted again, for the same date, one
\* hour later.  Fails on the code: after the hour the loop waits for the
\* next midnight and exports the date before its new `now`.
C10_FailedExportRetried ==
    \A i \in DOMAIN log_attempts :
        (~log_attempts[i].ok /\ i < Len(log_attempts))
        => /\ log_attempts[i + 1].date = log_attempts[i].date
           /\ log_attempts[i + 1].at = log_attempts[i].at + UnitsPerHour

\* the sum of score x weight over the five components of the weight table,
\* in score units times hundredths
ExactWeightedTotal(r) ==
    LET w == EngineWeights(r.profile)
        s == r.component_scores
    IN  s.air_quality * w.air_quality + s.floor_moisture * w.floor_moisture
        + s.humidity * w.humidity + s.temperature * w.temperature
        + s.footfall_density * w.footfall_density

\* scores a component outside the weight table may take
ExtraScores == {0, 1, 50 * Scale, 100 * Scale}

\* the component scores of the documented example: 70, 80, 100, 100, 90
ExampleScores ==
    [air_quality |-> 70 * Scale, floor_moisture |-> 80 * Scale,
     humidity |-> 100 * Scale, temperature |-> 100 * Scale,
     footfall_density |-> 90 * Scale]

\* C11: the base score of every scored reading is the sum of score x weight
\* over the profile's weights rounded to 2 decimals (a multiple of 0.01 at
\* most 0.005 away from the exact sum); a component the weight table lacks
\* contributes nothing whatever its score; the public profile on the scores
\* 70, 80, 100, 100, 90 gives 82.5.
C11_WeightedScoreIsRoundedSum ==
    \A r \in Results :
        /\ r.base_score % (Scale \div 100) = 0
        /\ 100 * r.base_score - ExactWeightedTotal(r) <= 5 * 100
        /\ ExactWeightedTotal(r) - 100 * r.base_score <= 5 * 100
        /\ \A v \in ExtraScores :
              calculate_weighted_score(EngineWeights(r.profile),
                                       Put(r.component_scores, "noise_level", v))
                  = r.base_score
        /\ (r.profile = "public" /\ r.component_scores = ExampleScores)
              => r.base_score = 82 * Scale + Scale \div 2

\* C11 witness: the documented example was scored under the public profile
C11_Witness ==
    \E r \in Results :
        /\ r.profile = "public"
        /\ r.component_scores = ExampleScores
        /\ r.base_score = 82 * Scale + Scale \div 2

\* context c scores its reading in this step
Scores(c) == pc[c] = "score" /\ pc'[c] = "store_log"

\* clock values apply_time_decay may be called at
SampleClocks == {0, now, now + UnitsPerHour + 1, now + 24 * UnitsPerHour}

\* C12: a reading of a device with no recorded cleaning is scored with
\* final_score = base_score and decay_applied = 0, whatever the clock shows,
\* and apply_time_decay(base, None) is base at any time.
C12_NoCleaningNoDecay ==
    [][\A c \in contexts :
          (Scores(c) /\ WashroomId(c) \notin DOMAIN last_cleaning_times)
          => /\ result'[c] # None
             /\ The(result'[c]).final_score = The(result'[c]).base_score
             /\ The(result'[c]).decay_applied = 0
             /\ \A t \in SampleClocks :
                   apply_time_decay(The(result'[c]).base_score, None, t)
                       = The(result'[c]).base_score]_vars

\* C12 witness: hours after the start a reading of a device never cleaned
\* was scored without decay, while the other device has a recorded cleaning
C12_Witness ==
    /\ pc[1] = "store_log"
    /\ now > UnitsPerHour
    /\ WashroomId(1) \notin DOMAIN last_cleaning_times
    /\ DOMAIN last_cleaning_times # {}
    /\ The(result[1]).base_score > 0
    /\ The(result[1]).final_score = The(result[1]).base_score
    /\ The(result[1]).decay_applied = 0

\* the results of readings of devices with a recorded cleaning
CleanedResults == {r \in Results : r.washroom_id \in DOMAIN last_cleaning_times}

\* time units since the last recorded cleaning of the device of result r
ElapsedOf(r) == now - last_cleaning_times[r.washroom_id]

\* max(0, base_score - 0.5 x min(e - 1, 8)) before rounding, in score units
\* times UnitsPerHour
ExactDecayed(r) ==
    Max(0, r.base_score * UnitsPerHour
           - Min(ElapsedOf(r) - UnitsPerHour, 8 * UnitsPerHour) * (Scale \div 2))

\* C13: with e hours since the recorded cleaning, final_score = base_score
\* when e <= 1; otherwise final_score is max(0, base_score - 0.5 x
\* min(e - 1, 8)) rounded to 2 decimals, the decay is at most 4.0 points,
\* and e = 5 with base_score = 80 gives 78.0.
C13_DecayFormula ==
    \A r \in CleanedResults :
        /\ ElapsedOf(r) <= UnitsPerHour => r.final_score = r.base_score
        /\ ElapsedOf(r) > UnitsPerHour
             => /\ r.final_score % (Scale \div 100) = 0
                /\ r.final_score * UnitsPerHour - ExactDecayed(r) <= 5 * UnitsPerHour
                /\ ExactDecayed(r) - r.final_score * UnitsPerHour <= 5 * UnitsPerHour
                /\ r.base_score - r.final_score <= 4 * Scale
        /\ (ElapsedOf(r) = 5 * UnitsPerHour /\ r.base_score = 80 * Scale)
             => r.final_score = 78 * Scale

\* C13 witness: the documented example, a reading with base score 80.0
\* scored 5 hours after the cleaning
C13_Witness ==
    \E r \in CleanedResults :
        /\ ElapsedOf(r) = 5 * UnitsPerHour
        /\ r.base_score = 80 * Scale
        /\ r.final_score = 78 * Scale

\* base_score - final_score of a reading with base score `base` scored
\* `elapsed` time units after the cleaning
DecayAfter(base, elapsed) == base - apply_time_decay(base, Some(now - elapsed), now)

\* elapsed times a scored reading is compared with
ComparedElapsed == EngineElapsed \cup {24 * UnitsPerHour}

\* the elapsed time that uses up the chargeable window: 1 h of grace and 8 h
WindowExhausted == 9 * UnitsPerHour

\* C14: for the base score of every scored reading, a longer time since the
\* cleaning never gives a smaller decay amount, and all elapsed times past
\* the 8 chargeable hours give the same final score.
C14_DecayMonotone ==
    \A r \in CleanedResults : \A later \in ComparedElapsed :
        later >= ElapsedOf(r)
        => /\ DecayAfter(r.base_score, later) >= r.decay_applied
           /\ ElapsedOf(r) >= WindowExhausted
                => apply_time_decay(r.base_score, Some(now - later), now)
                       = r.final_score

\* C14 witness: a reading scored within the chargeable window with a decay
\* that is positive, grows with the hours and stays put past the window
C14_Witness ==
    \E r \in CleanedResults :
        /\ ElapsedOf(r) = TickUnits
        /\ r.decay_applied > 0
        /\ DecayAfter(r.base_score, 5 * UnitsPerHour) > r.decay_applied
        /\ DecayAfter(r.base_score, WindowExhausted)
               > DecayAfter(r.base_score, 5 * UnitsPerHour)
        /\ DecayAfter(r.base_score, 12 * UnitsPerHour)
               = DecayAfter(r.base_score, WindowExhausted)

\* the position of each anomaly kind in the order of the rules
KindRank ==
    [ODOR_SPIKE |-> 1, MOISTURE_ALERT |-> 2, TEMPERATURE_ANOMALY |-> 3, HIGH_USAGE |-> 4]

\* the kinds of the anomalies of result r, in their order
KindsOf(r) == [i \in DOMAIN r.anomalies |-> r.anomalies[i].type]

\* kind k is among the anomalies of result r
HasKind(r, k) == \E i \in DOMAIN r.anomalies : r.anomalies[i].type = k

\* the raw value of field f of the reading of result r, None when absent
RawField(r, f) == IF f \in DOMAIN r.sensor_data THEN Some(r.sensor_data[f]) ELSE None

\* C15: the anomalies of every scored reading are kinds of the four rules in
\* the order ODOR_SPIKE, MOISTURE_ALERT, TEMPERATURE_ANOMALY, HIGH_USAGE,
\* each at most once; each kind is present exactly when its rule holds on
\* the raw reading; and the sequence is a function of the reading alone.
C15_AnomalyRules ==
    \A r \in Results :
        /\ \A i \in DOMAIN r.anomalies : r.anomalies[i].type \in DOMAIN KindRank
        /\ \A i, j \in DOMAIN r.anomalies :
              i < j => KindRank[KindsOf(r)[i]] < KindRank[KindsOf(r)[j]]
        /\ HasKind(r, "ODOR_SPIKE")
              <=> \E v \in RawField(r, "air_quality") : v > 70
        /\ HasKind(r, "MOISTURE_ALERT")
              <=> \E v \in RawField(r, "floor_moisture") : v > 60
        /\ HasKind(r, "TEMPERATURE_ANOMALY")
              <=> \E v \in RawField(r, "temperature") : v < 10 \/ v > 35
        /\ HasKind(r, "HIGH_USAGE")
              <=> /\ \E v \in RawField(r, "footfall_count") : v > 50
                  /\ r.component_scores.air_quality < 40 * Scale
        /\ r.anomalies =
              detect_anomalies(r.sensor_data, calculate_component_scores(r.sensor_data))

\* C15 witness: a reading just past every limit raised the four kinds
C15_Witness ==
    \E r \in Results :
        /\ KindsOf(r) = <<"ODOR_SPIKE", "MOISTURE_ALERT", "TEMPERATURE_ANOMALY",
                          "HIGH_USAGE">>
        /\ r.sensor_data.air_quality = 71
        /\ r.sensor_data.floor_moisture = 61
        /\ r.sensor_data.footfall_count = 51

\* the steps of get_washroom_config
ConfigSteps == {"cfg_check", "cfg_get", "cfg_create", "cfg_cache", "cfg_return"}

\* the pipeline stage of a handler at position p, get_washroom_config having
\* been called from r: 1 profile resolution, 2 scoring and anomaly
\* detection, 3-4 hand-off to the persistence sink, 5 alert evaluation,
\* 6 notification push, 7 cache update, 8 console output
StageAt(p, r) ==
    CASE p = "validate" -> 0
      [] p \in ConfigSteps /\ r = "score" -> 1
      [] p = "score" -> 2
      [] p = "store_log" -> 3
      [] p = "store_current" -> 4
      [] p \in ConfigSteps /\ r = "alerts" -> 5
      [] p = "alerts" -> 5
      [] p = "notify" -> 6
      [] p = "cache" -> 7
      [] p = "print" -> 8
      [] OTHER -> 0 - 1

\* the result of context c was appended to the historical log
Logged(c) == \E i \in DOMAIN fs_logs : fs_logs[i] = The(result[c])

\* the current-state record of the device of context c is that of its result
CurrentStored(c) ==
    /\ WashroomId(c) \in DOMAIN rt_current
    /\ rt_current[WashroomId(c)].score = The(result[c]).final_score

\* what holds at each stage of the pipeline of context c
StageInvariant(c) ==
    LET stage == StageAt(pc[c], ret[c])
    IN  /\ stage >= 2 => /\ WashroomId(c) \in DOMAIN washroom_configs
                         /\ config[c] = washroom_configs[WashroomId(c)]
        /\ stage \in {0, 1, 2} => result[c] = None
        /\ stage >= 3 => /\ result[c] # None
                         /\ The(result[c]).profile = Get(config[c], "profile", "public")
        /\ stage >= 4 => Logged(c)
        /\ stage >= 5 => CurrentStored(c)
        /\ stage >= 7
             => (AlertFires(The(result[c]).final_score,
                            Get(config[c], "threshold", HYGIENE_THRESHOLD))
                 => /\ WashroomId(c) \in DOMAIN rt_notifications
                    /\ rt_notifications[WashroomId(c)]
                           [Len(rt_notifications[WashroomId(c)])].score
                         = The(result[c]).final_score)
        /\ stage = 8 => /\ WashroomId(c) \in DOMAIN last_scores
                        /\ last_scores[WashroomId(c)] = The(result[c]).final_score

\* a step of context c keeps to the order of the stages: it stays in its
\* stage, enters the next one (alert evaluation may skip the push), is cut
\* short by an exception, or returns after the console output
InOrder(c) ==
    LET stage == StageAt(pc[c], ret[c])
        next  == StageAt(pc'[c], ret'[c])
    IN  stage >= 1 =>
          \/ pc'[c] = "except"
          \/ pc'[c] = "idle" /\ stage = 8
          \/ next \in {stage, stage + 1}
          \/ stage = 5 /\ next = 7

\* C16: every reading goes through profile resolution, scoring and anomaly
\* detection, hand-off to the persistence sink, alert evaluation (with the
\* push when it fires) and the cache update in that order, and every score
\* the cache holds belongs to a result already handed to the persistence sink.
C16_PipelineOrder ==
    /\ [](\A c \in contexts : StageInvariant(c))
    /\ [](\A id \in DOMAIN last_scores :
            \E i \in DOMAIN fs_logs :
                /\ fs_logs[i].washroom_id = id
                /\ fs_logs[i].final_score = last_scores[id])
    /\ [][\A c \in contexts : InOrder(c)]_vars

\* C16 witness: a reading below its threshold went through every stage: it
\* was logged, stored, notified and cached, and its handler has returned
C16_Witness ==
    /\ Quiet
    /\ processed # <<>>
    /\ result[1] # None
    /\ fault[1] = "none"
    /\ Logged(1)
    /\ CurrentStored(1)
    /\ AlertFires(The(result[1]).final_score,
                  Get(config[1], "threshold", HYGIENE_THRESHOLD))
    /\ WashroomId(1) \in DOMAIN rt_notifications
    /\ last_scores[WashroomId(1)] = The(result[1]).final_score

\* the Get and Create calls made on the external config store for a device
StoreCalls(calls, id) == <<Get(calls.get, id, 0), Get(calls.set, id, 0)>>

\* a step leaves the resolved profile of every device in the cache as it is
\* and calls the external config store for none of them
ServedFromCache ==
    \A id \in DOMAIN washroom_configs :
        /\ id \in DOMAIN washroom_configs'
        /\ washroom_configs'[id] = washroom_configs[id]
        /\ StoreCalls(cfg_calls', id) = StoreCalls(cfg_calls, id)

\* the alert decision of context c is taken against the threshold of the
\* cached profile
AlertAgainstCachedThreshold(c) ==
    (pc[c] = "alerts" /\ pc'[c] # "alerts")
    => (pc'[c] = "notify"
        <=> The(result[c]).final_score
              < Get(washroom_configs[WashroomId(c)], "threshold", HYGIENE_THRESHOLD)
                  * Scale)

\* C17: once the profile of a device is in the in-memory cache, no step
\* calls Get or Create on the external config store for it again and the
\* cached profile stays as it is; the profile a reading was weighted with
\* and the threshold its alert is decided against are those of that one
\* cached profile.
C17_ReadThroughCache ==
    /\ [][ServedFromCache]_vars
    /\ [][\A c \in contexts : AlertAgainstCachedThreshold(c)]_vars
    /\ [](\A c \in contexts :
            pc[c] \in {"score", "store_log", "store_current", "alerts", "notify",
                       "cache", "print"}
            => /\ WashroomId(c) \in DOMAIN washroom_configs
               /\ config[c] = washroom_configs[WashroomId(c)]
               /\ result[c] # None
                    => The(result[c]).profile
                         = Get(washroom_configs[WashroomId(c)], "profile", "public"))

\* C17 witness: two readings of a first-sight device were processed with one
\* Get and one Create call on the external store
C17_Witness ==
    /\ Quiet
    /\ Len(processed) = 2
    /\ processed[1].washroom_id = "w1"
    /\ processed[2].washroom_id = "w1"
    /\ StoreCalls(cfg_calls, "w1") = <<1, 1>>
    /\ washroom_configs["w1"] = DefaultConfig("w1")

\* C18: every export run happens at a midnight and is for the calendar day
\* that ended at that midnight, the day before the run.  Fails on the code:
\* `yesterday` is computed from the `now` taken before the sleep (lines 357
\* and 366), so the run exports the day before the day that just ended.
C18_ExportsDayJustEnded ==
    \A i \in DOMAIN log_attempts :
        /\ log_attempts[i].at % DayUnits = 0
        /\ log_attempts[i].date = Date(log_attempts[i].at) - 1

\* C19: a dashboard refresh that runs while readings are processed completes
\* and the dashboard loop goes on.  Fails on the code: line 425 iterates over
\* last_scores itself, so the first reading of a new device cached during
\* the loop makes the iterator raise RuntimeError, which nothing in
\* console_dashboard catches.
C19_DashboardRefreshCompletes == dash_pc \in {"sleep", "iter"}

\* the documented default of each sensor field
DocumentedDefaults ==
    [air_quality |-> 50, floor_moisture |-> 30, humidity |-> 50,
     temperature |-> 23, footfall_count |-> 0]

\* the sensor fields a reading lacks
MissingFields(data) == DOMAIN DocumentedDefaults \ DOMAIN data

\* the reading with the fields of F set to their documented defaults
WithDefaults(data, F) ==
    [f \in DOMAIN data \cup F |->
        IF f \in DOMAIN data THEN data[f] ELSE DocumentedDefaults[f]]

\* the anomaly kinds detect_anomalies finds on a reading, in their order
AnomalyKinds(data) ==
    LET found == detect_anomalies(data, calculate_component_scores(data))
    IN  [i \in DOMAIN found |-> found[i].type]

\* C20: a scored reading that lacks sensor fields has the component scores,
\* the base score and the anomaly kinds of the same reading with any of the
\* missing fields set to its documented default.
C20_MissingFieldIsDefault ==
    \A r \in Results : \A F \in SUBSET MissingFields(r.sensor_data) :
        LET filled == WithDefaults(r.sensor_data, F)
        IN  /\ calculate_component_scores(filled) = r.component_scores
            /\ calculate_weighted_score(EngineWeights(r.profile),
                                        calculate_component_scores(filled))
                  = r.base_score
            /\ AnomalyKinds(filled) = KindsOf(r)

\* C20 witness: a reading with the device id alone was scored as the
\* all-defaults reading: 50, 70, 100, 100, 100 and no anomaly
C20_Witness ==
    \E r \in Results :
        /\ MissingFields(r.sensor_data) = DOMAIN DocumentedDefaults
        /\ r.component_scores =
              [air_quality |-> 50 * Scale, floor_moisture |-> 70 * Scale,
               humidity |-> 100 * Scale, temperature |-> 100 * Scale,
               footfall_density |-> 100 * Scale]
        /\ r.anomalies = <<>>

====
